---- MODULE Spec2Model ----
(***************************************************************************)
(* State-machine model of src/src/CameraFeed.jsx: the CameraFeed React     *)
(* component, its camera lifecycle (startCamera / stopCamera / unmount     *)
(* cleanup), the model load, and the requestAnimationFrame-driven          *)
(* prediction loop created by startPredictionLoop.                         *)
(*                                                                         *)
(* JavaScript is single-threaded: every action below is one macrotask or   *)
(* one continuation between two awaits, run to completion.                 *)
(***************************************************************************)
EXTENDS Integers, Sequences, FiniteSets, TLC

(* ------------------------------ bounds -------------------------------- *)

\* number of prediction-loop closures that may be alive at the same time
MaxLoops == 2

\* number of startCamera calls (= getUserMedia requests) in one behaviour
MaxStarts == 2

\* Date.now() at mount, in ms (any value larger than predictionDelay)
Epoch == 1000

\* the clock is followed for this many ms after Epoch
MaxElapsed == 200

\* granularity of the clock, in ms
TickStep == 100

\* probabilities are the rationals k / ProbScale, k in 0..ProbScale
ProbScale == 1

\* longest prediction array the classifier returns
MaxPreds == 2

(* ------------------------- program constants --------------------------- *)

\* const predictionDelay = 100
predictionDelay == 100

\* className texts of the loaded Teachable Machine model (operator-supplied)
ClassNames == {"Class 1", "Class 2"}

Loops == 1..MaxLoops

\* streams are numbered in the order getUserMedia returns them
StreamIds == 1..MaxStarts

\* null of a ref that holds a stream / an animation-frame id
NullRef == 0

\* Animation-frame ids are compared for equality only, so an id is named by
\* what it designates: l in Loops is the id of the callback that the closure
\* in slot l has pending, StaleId is any id whose callback already ran or was
\* cancelled.
StaleId == -1

\* useState(null) of modelOutput
NullOutput == [output |-> -1, confidence |-> -1, class |-> "null"]

\* let maxPred = null
NullPred == [className |-> "null", probability |-> -1]

\* history: the last step was not a cycle of the prediction loop
NoStep == [op |-> "other", loop |-> 0]

\* a loop slot that holds no closure
NoLoop == [pc |-> "none", lastPredictionTime |-> 0, now |-> 0, invokedAt |-> 0]

\* a stream getUserMedia has not returned
NoTrack == [state |-> "none", stops |-> 0]

VARIABLES
  mounted,            \* the component is mounted (videoRef.current is the <video>)
  loadPc,             \* position of loadModel: "loading", "done", "failed"
  modelRef,           \* modelRef.current is a model (TRUE) or null (FALSE)
  modelLoaded,        \* useState modelLoaded
  error,              \* useState error
  isActive,           \* useState isActive
  doorState,          \* useState doorState
  modelOutput,        \* useState modelOutput
  streamRef,          \* streamRef.current: a stream id or NullRef
  calls,              \* startCamera calls suspended at await getUserMedia: how many
                      \* hold modelLoaded = FALSE, how many modelLoaded = TRUE
  nStarts,            \* number of startCamera calls made so far
  tracks,             \* the video track of every stream getUserMedia returned
  loops,              \* the closures created by startPredictionLoop
  predictionLoopRef,  \* predictionLoopRef.current: an animation-frame id or NullRef
  clock,              \* Date.now()
  lastStep,           \* history: what the last step did, if it was a cycle of a loop
  halted,             \* history: stopCamera ran and no loop was started since
  lastCall,           \* history: the last handler the user invoked
  alternating         \* history: the calls so far were start, stop, start, stop ...

vars == <<mounted, loadPc, modelRef, modelLoaded, error, isActive, doorState,
          modelOutput, streamRef, calls, nStarts, tracks, loops, predictionLoopRef,
          clock, lastStep, halted, lastCall, alternating>>

(* ----------------------------- React ----------------------------------- *)

\* videoRef.current: React attaches the <video> on mount, nulls it on unmount
videoRef == mounted

\* a state setter: React drops updates of an unmounted component
SetState(old, new) == IF mounted THEN new ELSE old

(* ------------------------ output interpretation ------------------------ *)

\* one entry of the classifier's answer; probability is k / ProbScale
Entries == [className : ClassNames, probability : 0..ProbScale]

\* the answers modelRef.current.predict may resolve with
Results == UNION {[1..n -> Entries] : n \in 0..MaxPreds}

\* let maxProb = 0; let maxIndex = 0; let maxPred = null
ScanInit == [maxProb |-> 0, maxIndex |-> 0, maxPred |-> NullPred]

\* the body of the forEach callback, for the entry at 0-based index
ScanStep(acc, pred, index) ==
  IF pred.probability > acc.maxProb
  THEN [maxProb |-> pred.probability, maxIndex |-> index, maxPred |-> pred]
  ELSE acc

\* predArray.forEach((pred, index) => ...), left to right
RECURSIVE ScanFrom(_, _, _)
ScanFrom(predArray, i, acc) ==
  IF i > Len(predArray) THEN acc
  ELSE ScanFrom(predArray, i + 1, ScanStep(acc, predArray[i], i - 1))

Scan(predArray) == ScanFrom(predArray, 1, ScanInit)

\* a slip that would take the output from the label text instead of the index
OutputOfByLabel(maxIndex, maxPred) == IF maxPred.className = "Class 1" THEN 0 ELSE 1

\* const output = maxIndex === 0 ? 0 : 1
OutputOf(maxIndex, maxPred) == IF maxIndex = 0 THEN 0 ELSE 1

\* (maxProb * 100).toFixed(1), as a number of tenths of a percent
Confidence(maxProb) == (2000 * maxProb + ProbScale) \div (2 * ProbScale)

\* const outputData = { output, confidence, class }
OutputData(predArray) ==
  LET m == Scan(predArray) IN
  [output     |-> OutputOf(m.maxIndex, m.maxPred),
   confidence |-> Confidence(m.maxProb),
   class      |-> IF m.maxPred # NullPred THEN m.maxPred.className ELSE "Unknown"]

\* setDoorState(output === 0 ? 'open' : 'closed')
DoorOf(output) == IF output = 0 THEN "open" ELSE "closed"

\* all that predict() reads of an answer: whether predArray.length > 0, and
\* the outputData of a nonempty one
Reading(predictions) ==
  IF Len(predictions) > 0 THEN OutputData(predictions) ELSE NullOutput

\* one answer of Results for every way predict() can read an answer; two
\* answers with the same Reading take predict() to the same state
Answers ==
  {CHOOSE r \in Results : Reading(r) = x : x \in {Reading(q) : q \in Results}}

(* --------------------------- browser objects --------------------------- *)

\* a slip that would drop the reference without stopping the tracks
StopTracksSkipped(tr, ref) == tr

\* stream.getTracks().forEach(track => track.stop()) on the stream ref holds
StopTracks(tr, ref) ==
  IF ref # NullRef
  THEN [tr EXCEPT ![ref] = [state |-> "ended", stops |-> @.stops + 1]]
  ELSE tr

\* cancelAnimationFrame(id): the callback registered under id never runs
CancelAnimationFrame(lps, id) ==
  [l \in Loops |-> IF lps[l].pc = "pending" /\ id = l THEN NoLoop ELSE lps[l]]

\* the id after cancelAnimationFrame(id): it names no pending callback
Used(id) == IF id \in Loops THEN StaleId ELSE id

\* loop slots that hold no closure
FreeLoops == {l \in Loops : loops[l].pc = "none"}

\* closures of startCamera that are suspended at await getUserMedia
PendingCalls == {b \in BOOLEAN : calls[b] > 0}

\* streams getUserMedia has returned so far
Acquired == {c \in StreamIds : tracks[c].state # "none"}

(* ------------------------------ Init ----------------------------------- *)

Init ==
  /\ mounted = TRUE
  /\ loadPc = "loading"
  /\ modelRef = FALSE
  /\ modelLoaded = FALSE
  /\ error = "null"
  /\ isActive = FALSE
  /\ doorState = "closed"
  /\ modelOutput = NullOutput
  /\ streamRef = NullRef
  /\ calls = [b \in BOOLEAN |-> 0]
  /\ nStarts = 0
  /\ tracks = [c \in StreamIds |-> NoTrack]
  /\ loops = [l \in Loops |-> NoLoop]
  /\ predictionLoopRef = NullRef
  /\ clock = Epoch
  /\ lastStep = NoStep
  /\ halted = FALSE
  /\ lastCall = "none"
  /\ alternating = TRUE

(* --------------------------- the prediction loop ------------------------ *)

\* predictionLoopRef.current = requestAnimationFrame(predict), by the closure in slot l
RequestAnimationFrame(lps, l) ==
  /\ loops' = [lps EXCEPT ![l] = [@ EXCEPT !.pc = "pending", !.now = 0]]
  /\ predictionLoopRef' = l

\* the throttle test of predict: (now - lastPredictionTime) > predictionDelay
DelayElapsed(now, lastPredictionTime) == (now - lastPredictionTime) > predictionDelay

\* a slip that would return from a skipping cycle without rescheduling
PredictCycleReturnsOnSkip(lps, l, ready) ==
  IF videoRef /\ modelRef /\ DelayElapsed(clock, lps[l].lastPredictionTime) /\ ready
  THEN /\ loops' = [lps EXCEPT ![l] = [@ EXCEPT !.pc = "awaiting", !.now = clock,
                                                 !.invokedAt = clock]]
       /\ predictionLoopRef' = IF predictionLoopRef = l THEN StaleId ELSE predictionLoopRef
  ELSE /\ loops' = [lps EXCEPT ![l] = NoLoop]
       /\ predictionLoopRef' = IF predictionLoopRef = l THEN StaleId ELSE predictionLoopRef

\* one run of predict() from its entry to the classifier await, or to its end
\* when the cycle skips; ready is videoRef.current.readyState === HAVE_ENOUGH_DATA
PredictCycle(lps, l, ready) ==
  IF videoRef /\ modelRef /\ DelayElapsed(clock, lps[l].lastPredictionTime) /\ ready
  THEN \* the callback of slot l has run: an id that named it is now stale
       /\ loops' = [lps EXCEPT ![l] = [@ EXCEPT !.pc = "awaiting", !.now = clock,
                                                 !.invokedAt = clock]]
       /\ predictionLoopRef' = IF predictionLoopRef = l THEN StaleId ELSE predictionLoopRef
  ELSE RequestAnimationFrame(lps, l)

\* the browser runs the animation-frame callback of the closure in slot l
Frame(l, ready) ==
  /\ loops[l].pc = "pending"
  /\ PredictCycle(loops, l, ready)
  /\ lastStep' = [op |-> IF loops'[l].pc = "awaiting" THEN "invoke" ELSE "skip", loop |-> l]
  /\ UNCHANGED <<mounted, loadPc, modelRef, modelLoaded, error, isActive, doorState,
                 modelOutput, streamRef, calls, nStarts, tracks, clock, halted, lastCall,
                 alternating>>

\* a slip that would publish without the predArray.length > 0 test
PredictResolveUnguarded(l, predictions) ==
  /\ loops[l].pc = "awaiting"
  /\ modelOutput' = SetState(modelOutput, OutputData(predictions))
  /\ doorState' = SetState(doorState, DoorOf(OutputData(predictions).output))
  /\ lastStep' = [op |-> IF Len(predictions) > 0 THEN "classified" ELSE "empty", loop |-> l]
  /\ RequestAnimationFrame([loops EXCEPT ![l].lastPredictionTime = loops[l].now], l)
  /\ UNCHANGED <<mounted, loadPc, modelRef, modelLoaded, error, isActive, streamRef,
                 calls, nStarts, tracks, clock, halted, lastCall, alternating>>

\* await modelRef.current.predict(...) resolves with predictions; the cycle
\* runs on to its end
PredictResolve(l, predictions) ==
  /\ loops[l].pc = "awaiting"
  /\ IF Len(predictions) > 0
     THEN /\ modelOutput' = SetState(modelOutput, OutputData(predictions))
          /\ doorState' = SetState(doorState, DoorOf(OutputData(predictions).output))
          /\ lastStep' = [op |-> "classified", loop |-> l]
     ELSE /\ UNCHANGED <<modelOutput, doorState>>
          /\ lastStep' = [op |-> "empty", loop |-> l]
  /\ RequestAnimationFrame([loops EXCEPT ![l].lastPredictionTime = loops[l].now], l)
  /\ UNCHANGED <<mounted, loadPc, modelRef, modelLoaded, error, isActive, streamRef,
                 calls, nStarts, tracks, clock, halted, lastCall, alternating>>

\* a slip that would put requestAnimationFrame inside the try block, so that a
\* rejection ends the loop
PredictRejectEndsLoop(l) ==
  /\ loops[l].pc = "awaiting"
  /\ loops' = [loops EXCEPT ![l] = NoLoop]
  /\ lastStep' = [op |-> "rejected", loop |-> l]
  /\ UNCHANGED <<mounted, loadPc, modelRef, modelLoaded, error, isActive, doorState,
                 modelOutput, streamRef, calls, nStarts, tracks, predictionLoopRef, clock, halted, lastCall, alternating>>

\* await modelRef.current.predict(...) rejects: the catch logs, the cycle ends
PredictReject(l) ==
  /\ loops[l].pc = "awaiting"
  /\ RequestAnimationFrame(loops, l)
  /\ lastStep' = [op |-> "rejected", loop |-> l]
  /\ UNCHANGED <<mounted, loadPc, modelRef, modelLoaded, error, isActive, doorState,
                 modelOutput, streamRef, calls, nStarts, tracks, clock, halted, lastCall,
                 alternating>>

\* startPredictionLoop(): a new closure with lastPredictionTime = 0, and its
\* first predict() called directly
StartPredictionLoop(ready) ==
  /\ FreeLoops # {}
  /\ LET l == CHOOSE f \in FreeLoops : \A g \in FreeLoops : f <= g IN
     /\ PredictCycle([loops EXCEPT ![l] = [NoLoop EXCEPT !.pc = "entered"]], l, ready)
     /\ lastStep' = [op |-> IF loops'[l].pc = "awaiting" THEN "invoke" ELSE "skip", loop |-> l]
  /\ halted' = FALSE

(* ------------------------------ model load ------------------------------ *)

\* modelRef.current = await tmImage.load(...) resolves; setModelLoaded(true)
LoadModelResolve ==
  /\ loadPc = "loading"
  /\ loadPc' = "done"
  /\ modelRef' = TRUE
  /\ modelLoaded' = SetState(modelLoaded, TRUE)
  /\ lastStep' = NoStep
  /\ UNCHANGED <<mounted, error, isActive, doorState, modelOutput, streamRef, calls, nStarts,
                 tracks, loops, predictionLoopRef, clock, halted, lastCall,
                 alternating>>

\* tmImage.load rejects: the catch of loadModel sets the error
LoadModelReject ==
  /\ loadPc = "loading"
  /\ loadPc' = "failed"
  /\ error' = SetState(error, "Failed to load model")
  /\ lastStep' = NoStep
  /\ UNCHANGED <<mounted, modelRef, modelLoaded, isActive, doorState, modelOutput,
                 streamRef, calls, nStarts, tracks, loops, predictionLoopRef, clock,
                 halted, lastCall, alternating>>

(* ---------------------------- camera lifecycle -------------------------- *)

\* click on Start Camera (enabled while !isActive): startCamera runs up to
\* await getUserMedia; its closure holds the modelLoaded of the current render
StartCamera ==
  /\ mounted
  /\ ~isActive
  /\ nStarts < MaxStarts
  /\ nStarts' = nStarts + 1
  /\ error' = SetState(error, "null")
  /\ calls' = [calls EXCEPT ![modelLoaded] = @ + 1]
  /\ lastStep' = NoStep
  /\ lastCall' = "start"
  /\ alternating' = (alternating /\ lastCall # "start" /\ PendingCalls = {})
  /\ UNCHANGED <<mounted, loadPc, modelRef, modelLoaded, isActive, doorState,
                 modelOutput, streamRef, tracks, loops, predictionLoopRef, clock, halted>>

\* a slip that would start the loop without looking at the model
ModelReadyUnchecked(closureLoaded) == TRUE

\* if (modelRef.current && modelLoaded), modelLoaded being the closure's
ModelReady(closureLoaded) == modelRef /\ closureLoaded

\* getUserMedia resolves with a new stream for a startCamera call whose
\* closure holds modelLoaded = closureLoaded; startCamera runs from the await
\* to its end, the first predict() included
GetUserMediaResolve(closureLoaded, ready) ==
  /\ calls[closureLoaded] > 0
  /\ calls' = [calls EXCEPT ![closureLoaded] = @ - 1]
  /\ tracks' = [tracks EXCEPT ![Cardinality(Acquired) + 1] = [state |-> "live", stops |-> 0]]
  /\ IF videoRef
     THEN /\ streamRef' = Cardinality(Acquired) + 1
          /\ isActive' = SetState(isActive, TRUE)
          /\ IF ModelReady(closureLoaded)
             THEN StartPredictionLoop(ready)
             ELSE /\ lastStep' = NoStep
                  /\ UNCHANGED <<loops, predictionLoopRef, halted>>
     ELSE /\ lastStep' = NoStep
          /\ UNCHANGED <<streamRef, isActive, loops, predictionLoopRef, halted>>
  /\ UNCHANGED <<mounted, loadPc, modelRef, modelLoaded, error, doorState, modelOutput,
                 nStarts, clock, lastCall, alternating>>

\* a slip that would swallow the rejection
GetUserMediaRejectSilent(closureLoaded) ==
  /\ calls[closureLoaded] > 0
  /\ calls' = [calls EXCEPT ![closureLoaded] = @ - 1]
  /\ isActive' = SetState(isActive, FALSE)
  /\ lastStep' = NoStep
  /\ UNCHANGED <<mounted, loadPc, modelRef, modelLoaded, error, doorState, modelOutput,
                 nStarts, streamRef, tracks, loops, predictionLoopRef, clock, halted,
                 lastCall, alternating>>

\* getUserMedia rejects for a pending startCamera call: the catch of startCamera
GetUserMediaReject(closureLoaded) ==
  /\ calls[closureLoaded] > 0
  /\ calls' = [calls EXCEPT ![closureLoaded] = @ - 1]
  /\ error' = SetState(error, "Camera error")
  /\ isActive' = SetState(isActive, FALSE)
  /\ lastStep' = NoStep
  /\ UNCHANGED <<mounted, loadPc, modelRef, modelLoaded, doorState, modelOutput,
                 nStarts, streamRef, tracks, loops, predictionLoopRef, clock, halted,
                 lastCall, alternating>>

\* what stopCamera reads and writes
CameraState ==
  [streamRef |-> streamRef, isActive |-> isActive, tracks |-> tracks, loops |-> loops,
   predictionLoopRef |-> predictionLoopRef]

\* a slip that would stop the tracks and leave the stream in streamRef.current
stopCameraKeepsRef(s) ==
  [streamRef         |-> s.streamRef,
   isActive          |-> IF s.streamRef # NullRef THEN SetState(s.isActive, FALSE)
                         ELSE s.isActive,
   tracks            |-> StopTracks(s.tracks, s.streamRef),
   loops             |-> IF s.predictionLoopRef # NullRef
                         THEN CancelAnimationFrame(s.loops, s.predictionLoopRef)
                         ELSE s.loops,
   predictionLoopRef |-> Used(s.predictionLoopRef)]

\* stopCamera(), as a function of the state it reads
stopCamera(s) ==
  [streamRef         |-> NullRef,
   isActive          |-> IF s.streamRef # NullRef THEN SetState(s.isActive, FALSE)
                         ELSE s.isActive,
   tracks            |-> StopTracks(s.tracks, s.streamRef),
   loops             |-> IF s.predictionLoopRef # NullRef
                         THEN CancelAnimationFrame(s.loops, s.predictionLoopRef)
                         ELSE s.loops,
   predictionLoopRef |-> Used(s.predictionLoopRef)]

\* click on Stop Camera (enabled while isActive): stopCamera
StopCamera ==
  /\ mounted
  /\ isActive
  /\ tracks' = stopCamera(CameraState).tracks
  /\ streamRef' = stopCamera(CameraState).streamRef
  /\ isActive' = stopCamera(CameraState).isActive
  /\ loops' = stopCamera(CameraState).loops
  /\ predictionLoopRef' = stopCamera(CameraState).predictionLoopRef
  /\ lastStep' = NoStep
  /\ halted' = TRUE
  /\ lastCall' = "stop"
  /\ alternating' = (alternating /\ lastCall = "start" /\ PendingCalls = {})
  /\ UNCHANGED <<mounted, loadPc, modelRef, modelLoaded, error, doorState, modelOutput,
                 calls, nStarts, clock>>

\* the component unmounts: the cleanup returned by the mount effect runs
Unmount ==
  /\ mounted
  /\ mounted' = FALSE
  /\ tracks' = StopTracks(tracks, streamRef)
  /\ loops' = IF predictionLoopRef # NullRef
              THEN CancelAnimationFrame(loops, predictionLoopRef) ELSE loops
  /\ predictionLoopRef' = Used(predictionLoopRef)
  /\ lastStep' = NoStep
  /\ lastCall' = "unmount"
  /\ UNCHANGED <<loadPc, modelRef, modelLoaded, error, isActive, doorState, modelOutput,
                 streamRef, calls, nStarts, clock, halted, alternating>>

(* -------------------------------- time ---------------------------------- *)

\* Date.now() advances between two tasks
Advance ==
  /\ clock + TickStep <= Epoch + MaxElapsed
  /\ clock' = clock + TickStep
  /\ lastStep' = NoStep
  /\ UNCHANGED <<mounted, loadPc, modelRef, modelLoaded, error, isActive, doorState,
                 modelOutput, streamRef, calls, nStarts, tracks, loops, predictionLoopRef,
                 halted, lastCall, alternating>>

(* ------------------------------ behaviours ------------------------------ *)

Next ==
  \/ LoadModelResolve
  \/ LoadModelReject
  \/ StartCamera
  \/ \E closureLoaded \in BOOLEAN, ready \in BOOLEAN : GetUserMediaResolve(closureLoaded, ready)
  \/ \E closureLoaded \in BOOLEAN : GetUserMediaReject(closureLoaded)
  \/ StopCamera
  \/ Unmount
  \/ \E l \in Loops, ready \in BOOLEAN : Frame(l, ready)
  \/ \E l \in Loops, predictions \in Answers : PredictResolve(l, predictions)
  \/ \E l \in Loops : PredictReject(l)
  \/ Advance

Spec == Init /\ [][Next]_vars

(* ------------------------------- claims --------------------------------- *)

\* classifier calls issued and not yet resolved or rejected
Outstanding == {l \in Loops : loops[l].pc = "awaiting"}

\* C1: at most one modelRef.current.predict call is outstanding at any
\* instant, under every interleaving of start, stop, frames and completions.
C1_AtMostOneOutstanding == Cardinality(Outstanding) <= 1

\* C2: a classification that was in flight when stopCamera ran is discarded
\* when it resolves: while the camera stays stopped, a resolving classifier
\* call leaves modelOutput and doorState as they were.
C2_StopDiscardsResult ==
  [][\A l \in Loops :
       (halted /\ loops[l].pc = "awaiting" /\ lastStep' = [op |-> "classified", loop |-> l])
       => (modelOutput' = modelOutput /\ doorState' = doorState)]_vars

\* C3: after stopCamera no cycle of the prediction loop is scheduled: until a
\* loop is started again, no animation-frame callback of predict is pending.
C3_NoCycleAfterStop == halted => \A l \in Loops : loops[l].pc # "pending"

\* C4: two cycles of one loop that both invoke the classifier start at
\* least predictionDelay apart, whatever the outcome of the first invocation.
C4_ThrottleHolds ==
  [][\A l \in Loops :
       (loops[l].pc # "awaiting" /\ loops'[l].pc = "awaiting" /\ loops[l].invokedAt # 0)
       => clock - loops[l].invokedAt >= predictionDelay]_vars

\* C5: a rejected classifier call publishes nothing (modelOutput and
\* doorState keep their values) and the loop schedules its next cycle.
C5_RejectKeepsLoopAndState ==
  [][\A l \in Loops :
       (loops[l].pc = "awaiting" /\ lastStep' = [op |-> "rejected", loop |-> l])
       => /\ modelOutput' = modelOutput
          /\ doorState' = doorState
          /\ loops'[l].pc = "pending"
          /\ predictionLoopRef' = l]_vars

\* C5 witness: a prediction is displayed, a later call has rejected, and the
\* loop's next cycle is scheduled.
C5_Witness ==
  /\ lastStep.op = "rejected"
  /\ modelOutput # NullOutput
  /\ loops[lastStep.loop].pc = "pending"

\* C6: a cycle whose classification result is the empty list leaves
\* modelOutput and doorState unchanged and schedules the next cycle.
C6_EmptyPublishesNothing ==
  [][\A l \in Loops :
       (loops[l].pc = "awaiting" /\ lastStep' = [op |-> "empty", loop |-> l])
       => /\ modelOutput' = modelOutput
          /\ doorState' = doorState
          /\ loops'[l].pc = "pending"
          /\ predictionLoopRef' = l]_vars

\* C6 witness: an empty result arrived while a prediction was displayed.
C6_Witness ==
  /\ lastStep.op = "empty"
  /\ modelOutput # NullOutput
  /\ loops[lastStep.loop].pc = "pending"

\* 1-based position of the first entry whose probability is the maximum
FirstMax(predArray) ==
  CHOOSE i \in 1..Len(predArray) :
    /\ \A j \in 1..Len(predArray) : predArray[j].probability <= predArray[i].probability
    /\ \A j \in 1..(i - 1) : predArray[j].probability < predArray[i].probability

\* C7: for every nonempty result the published class is the className of the
\* first maximum-probability entry and the output is that of its index.
C7_TopIsFirstMax ==
  [][\A l \in Loops :
       (mounted /\ loops[l].pc = "awaiting" /\ lastStep' = [op |-> "classified", loop |-> l])
       => \A r \in Results :
            (Len(r) > 0 /\ PredictResolve(l, r))
            => /\ modelOutput'.class = r[FirstMax(r)].className
               /\ modelOutput'.output = (IF FirstMax(r) = 1 THEN 0 ELSE 1)]_vars

\* the top indices (maxIndex) of the nonempty answers that predict() publishes
\* as the outputData x
TopIndicesOf ==
  [x \in {Reading(q) : q \in Results} |->
     {Scan(r).maxIndex : r \in {q \in Results : Len(q) > 0 /\ OutputData(q) = x}}]

C9_RoundTripReleasesAll ==
  (alternating /\ lastCall = "stop") => \A c \in StreamIds : tracks[c].state # "live"

\* C9 witness: two start/stop round trips, both streams acquired and ended.
C9_Witness ==
  /\ alternating
  /\ lastCall = "stop"
  /\ \E c, d \in StreamIds : c # d /\ tracks[c].state = "ended" /\ tracks[d].state = "ended"

\* C10: once the camera is off (stopCamera ran and it shows as off, or the
\* component unmounted) and no getUserMedia is pending, every stream that
\* getUserMedia returned has been released exactly once.
C10_EveryStreamReleasedOnce ==
  ((~mounted \/ (lastCall = "stop" /\ ~isActive)) /\ PendingCalls = {})
  => \A c \in StreamIds : tracks[c].state # "none" => tracks[c].stops = 1


\* C11: stopCamera is idempotent: in every reachable state a second
\* stopCamera right after the first leaves streamRef, isActive, the tracks
\* with their release counts and the scheduled cycles as the first left them.
C11_StopIdempotent ==
  stopCamera(stopCamera(CameraState)) = stopCamera(CameraState)

\* C11 witness: stopCamera has run on a live stream and a pending cycle, and
\* running it again changes nothing.
C11_Witness ==
  /\ lastCall = "stop"
  /\ \E c \in StreamIds : tracks[c] = [state |-> "ended", stops |-> 1]
  /\ predictionLoopRef = StaleId
  /\ stopCamera(CameraState) = CameraState


\* C12: once the model load has failed no prediction loop exists, however
\* often startCamera is called (no cycle is scheduled, no classifier call is
\* outstanding), and the failing load sets the error state.
C12_LoadFailureRefusesLoop ==
  [][/\ loadPc' = "failed" => \A l \in Loops : loops'[l].pc = "none"
     /\ (mounted /\ loadPc = "loading" /\ loadPc' = "failed")
        => error' = "Failed to load model"]_vars

\* C12 witness: the load failed and the camera was started twice, the second
\* time successfully.
C12_Witness ==
  /\ loadPc = "failed"
  /\ nStarts >= 2
  /\ isActive
  /\ \A l \in Loops : loops[l].pc = "none"


\* C13: a startCamera call made while the classifier is not loaded never
\* leaves the component reporting itself as running (isActive) with no
\* prediction loop: it is a no-op or ends in a reported error.
C13_NotReadyStartRefused ==
  [][(mounted /\ calls'[FALSE] < calls[FALSE])
     => ~(isActive' /\ error' = "null" /\ \A l \in Loops : loops'[l].pc = "none")]_vars

\* a pending startCamera call ends in its catch in this step
RejectStep == (\E b \in BOOLEAN : calls'[b] < calls[b]) /\ tracks' = tracks

\* C14: when getUserMedia rejects, the error state is set, isActive is false
\* and no prediction loop is started by the call; a later startCamera can
\* succeed and start the loop (C14_Witness).
C14_RejectSurfacesAndStaysStopped ==
  [][(mounted /\ RejectStep)
     => /\ error' = "Camera error"
        /\ isActive' = FALSE
        /\ loops' = loops]_vars

\* C14 witness: of two startCamera calls one was rejected, the one clicked
\* after the rejection succeeded (it cleared the error) and started the loop.
C14_Witness ==
  /\ mounted
  /\ nStarts = 2
  /\ Cardinality(Acquired) = 1
  /\ PendingCalls = {}
  /\ error = "null"
  /\ isActive
  /\ \E l \in Loops : loops[l].pc # "none"


\* prediction loops that exist: a cycle pending as an animation-frame
\* callback or suspended at the classifier await
LiveLoops == {l \in Loops : loops[l].pc # "none"}

\* C15: at most one prediction loop instance exists at any time, for every
\* sequence of startCamera and stopCamera calls.
C15_AtMostOneLoop == Cardinality(LiveLoops) <= 1

\* C16: a cycle that skips work still schedules exactly one next cycle: its
\* own callback is pending under the id written to predictionLoopRef, and no
\* other loop's schedule changes.
C16_SkipReschedulesOnce ==
  [][\A l \in Loops :
       lastStep' = [op |-> "skip", loop |-> l]
       => /\ loops'[l].pc = "pending"
          /\ predictionLoopRef' = l
          /\ \A k \in Loops \ {l} : loops'[k] = loops[k]]_vars

\* C16 witness: a throttled cycle of a loop that was not stopped has skipped
\* and its next cycle is scheduled.
C16_Witness ==
  /\ mounted
  /\ ~halted
  /\ lastStep.op = "skip"
  /\ loops[lastStep.loop].lastPredictionTime # 0
  /\ ~DelayElapsed(clock, loops[lastStep.loop].lastPredictionTime)
  /\ loops[lastStep.loop].pc = "pending"

\* C17: a cycle at which exactly predictionDelay ms have elapsed since the
\* last invocation, with a ready frame and no call of its loop in flight,
\* invokes the classifier.
C17_ExactDelayInvokes ==
  [][\A l \in Loops :
       (/\ videoRef
        /\ modelRef
        /\ clock - loops[l].lastPredictionTime = predictionDelay
        /\ Frame(l, TRUE))
       => loops'[l].pc = "awaiting"]_vars

\* C18: once the component has unmounted no predict cycle is scheduled
\* again: no step after the unmount calls requestAnimationFrame.
C18_NoScheduleAfterUnmount ==
  [][~mounted => lastStep'.op \notin {"skip", "classified", "empty", "rejected"}]_vars

\* C19: while mounted, isActive is true exactly when streamRef holds an
\* acquired stream whose track is live.
C19_ActiveIffLiveStream ==
  mounted => (isActive <=> (streamRef # NullRef /\ tracks[streamRef].state = "live"))

\* C20: when the camera is active, the model has loaded and no startCamera
\* call is still pending, a prediction loop is running.
C20_ActiveAndLoadedRunsLoop ==
  (mounted /\ isActive /\ modelRef /\ modelLoaded /\ PendingCalls = {})
  => LiveLoops # {}

====
